---- MODULE Spec2Model ----
(***************************************************************************)
(* Red Flag Detector: the AI-call retry wrapper (lib/ai/gemini-client.ts), *)
(* the category detector (lib/ai/category-detector), the usage-counter     *)
(* bookkeeping (lib/db/queries, app/(chat)/api/usage/route.ts), the email  *)
(* verification routes (app/(auth)/api/auth, app/(auth)/auth.ts), the file *)
(* upload route and the file cleanup cron job.                             *)
(***************************************************************************)
EXTENDS Integers, Sequences, FiniteSets, TLC

VARIABLES
    pc,          \* analyzeWithRetry: "idle", "attempt", "inflight", "waiting", "returned", "thrown"
    attempt,     \* analyzeWithRetry: the loop variable
    maxRetries,  \* analyzeWithRetry: the maxRetries parameter
    calls,       \* number of analyzeWithGemini calls started by this invocation
    inFlight,    \* number of analyzeWithGemini calls started and not yet settled
    log,         \* the invocation's events: "call" (n: attempt), "done" (a call settled, out: how),
                 \* "wait" (n: the milliseconds given to setTimeout)
    response,    \* what generateText did in the call that settled last
    result,      \* the AnalysisResult returned by analyzeWithRetry
    thrown,      \* the error thrown by analyzeWithRetry
    lastError,   \* the error analyzeWithGemini threw in the call that settled last
    dPc,         \* detectCategory: "idle", "called", "done"
    dInput,      \* detectCategory: what generateText did
    dResult,     \* detectCategory: the CategoryDetectionResult returned
    usageLogs,   \* the UsageLogs table: rows [id, userId, date, analysisCount]
    today,       \* the current day (UTC), counted from 1
    chat,        \* the POST /api/chat requests in flight, by request slot
    usageReq,    \* the GET /api/usage request being served
    requests,    \* number of POST /api/chat analysis requests received
    increments,  \* number of incrementUsage calls completed, by user and day
    users,       \* the User table: rows [id, email, password, emailVerified,
                 \* verificationToken, verificationTokenExpiry]
    clock,       \* Date.now() of the authentication routes, in hours
    authReq,     \* the signup, resend-verification and verify-email requests, by request slot
    authCount,   \* number of authentication requests received
    issued,      \* number of verification tokens generated by nanoid
    verifications, \* the successful verify-email requests: [user, token]
    authorized,  \* what authorize returned in the last credentials login
    uploadedFiles, \* the UploadedFiles table: rows [id, cloudinaryPublicId, fileType,
                 \* createdAt, autoDeleteAt, deletedAt]
    cloudinary,  \* the public ids stored at Cloudinary
    fileClock,   \* new Date() of the file routes, in days
    cronReq,     \* the GET /api/cron/cleanup-files request being served
    uploadReq,   \* the POST /api/files/upload request being served
    env          \* process.env: CRON_SECRET and FILE_RETENTION_DAYS

retryVars == <<pc, attempt, maxRetries, calls, inFlight, log, response, result, thrown, lastError>>

detectVars == <<dPc, dInput, dResult>>

usageVars == <<usageLogs, today, chat, usageReq, requests, increments>>

authVars == <<users, clock, authReq, authCount, issued, verifications, authorized>>

fileVars == <<uploadedFiles, cloudinary, fileClock, cronReq, uploadReq, env>>

vars == <<retryVars, detectVars, usageVars, authVars, fileVars>>

-----------------------------------------------------------------------------
(* Bounds of the model *)

\* largest maxRetries argument passed to analyzeWithRetry
MaxRetriesArg == 4

\* POST /api/chat requests served at the same time, and received in all
NumRequests == 2
MaxRequests == 3

\* the days of a calendar month; the clock runs to the first day of the next
DaysPerMonth == 6
MaxDay == DaysPerMonth + 1

\* concurrent requests to the authentication routes
NumAuthSlots == 2

\* authentication requests in one behaviour
MaxAuthRequests == 3

\* verification tokens generated in one behaviour
MaxTokens == 3

\* the hours that pass in one step of the clock, and the last hour
ClockStep == 25

MaxClock == 50

\* upload requests in one behaviour
MaxUploads == 2

\* the days that pass in one step of the clock, and the last day
DayStep == 4

MaxFileDay == 8

-----------------------------------------------------------------------------
(* lib/ai/types.ts, lib/ai/config (entitlements.ts) *)

TRANSIENT == "transient"
PERMANENT == "permanent"
PARSING == "parsing"

ErrorType == {TRANSIENT, PERMANENT, PARSING}

\* AI_CONFIG.retry
maxAttempts == 3
delays == <<1000, 3000, 5000>>

\* AI_CONFIG.analysis
minRedFlagScore == 0
maxRedFlagScore == 10
requiredFields == {"redFlagScore", "verdict", "criticalFlags", "warnings",
                   "notices", "positives", "advice"}

-----------------------------------------------------------------------------
(* JSON values a model response can hold.  An object is described by what   *)
(* validateAnalysisResult and its callers can observe of it: the type of    *)
(* redFlagScore and its value, the type of verdict, whether criticalFlags   *)
(* is an array, and which of the other fields are present.                  *)

OtherFields == {"warnings", "notices", "positives", "advice"}

Scores == {-1, 0, 10, 11}

JsonObjects ==
    { [kind |-> "object", scoreT |-> st, score |-> s, verdictT |-> vt,
       flagsArr |-> fa, others |-> o] :
        st \in {"number", "string", "undefined"}, s \in Scores,
        vt \in {"string", "undefined"}, fa \in BOOLEAN,
        o \in {OtherFields, OtherFields \ {"advice"}} }

\* JSON.parse("null")
JsonNull == [kind |-> "null", scoreT |-> "undefined", score |-> 0,
             verdictT |-> "undefined", flagsArr |-> FALSE, others |-> {}]

JsonValues ==
    { v \in JsonObjects : v.scoreT = "number" \/ v.score = 0 } \cup {JsonNull}

\* JSON.parse of an array: it has none of the properties of an AnalysisResult
JsonArray == [kind |-> "array", scoreT |-> "undefined", score |-> 0,
              verdictT |-> "undefined", flagsArr |-> FALSE, others |-> {}]

\* the fields of AnalysisResult present in a parsed value
FieldsOf(v) ==
    (IF v.scoreT # "undefined" THEN {"redFlagScore"} ELSE {})
    \cup (IF v.verdictT # "undefined" THEN {"verdict"} ELSE {})
    \cup (IF v.flagsArr THEN {"criticalFlags"} ELSE {})
    \cup v.others

-----------------------------------------------------------------------------
(* The text generateText returns, described by what each of the three      *)
(* extraction strategies of parseAnalysisJSON finds in it: whether its      *)
(* pattern matches, whether the extracted text is valid JSON, and the       *)
(* value it parses to.                                                      *)

NoMatch == [m |-> FALSE, valid |-> FALSE, v |-> JsonNull]
Json(v) == [m |-> TRUE, valid |-> TRUE, v |-> v]
BadJson == [m |-> TRUE, valid |-> FALSE, v |-> JsonNull]

\* the whole content is a JSON document
RawTexts ==
    { [block |-> NoMatch,
       span |-> IF v.kind = "object" /\ v.scoreT # "undefined" THEN Json(v) ELSE NoMatch,
       whole |-> Json(v)] : v \in JsonValues }

\* a ```json fence around a JSON document, prose around it
FencedTexts ==
    { [block |-> Json(v),
       span |-> IF v.kind = "object" /\ v.scoreT # "undefined" THEN BadJson ELSE NoMatch,
       whole |-> BadJson] : v \in JsonValues }

\* prose, then an object with a "redFlagScore" key
ProseTexts ==
    { [block |-> NoMatch, span |-> Json(v), whole |-> BadJson] :
        v \in { w \in JsonValues : w.kind = "object" /\ w.scoreT # "undefined" } }

\* a fence whose content is not JSON, and a valid object after it
BrokenFenceTexts ==
    { [block |-> BadJson, span |-> Json(v), whole |-> BadJson] :
        v \in { w \in JsonValues : w.kind = "object" /\ w.scoreT # "undefined" } }

\* no JSON at all
GarbageText == [block |-> NoMatch, span |-> NoMatch, whole |-> BadJson]

\* a JSON array of two objects, the first with a "redFlagScore" key: the span
\* from the first { to the last } is no JSON document
ArrayText == [block |-> NoMatch, span |-> BadJson, whole |-> Json(JsonArray)]

Texts ==
    RawTexts \cup FencedTexts \cup ProseTexts \cup BrokenFenceTexts
    \cup {GarbageText, ArrayText}

-----------------------------------------------------------------------------
(* Errors generateText throws: the cause, and the phrases its lowercased   *)
(* message contains.                                                        *)

ApiErrors ==
    { [cause |-> "http_429", tokens |-> {"429", "rate limit"}],
      [cause |-> "http_429", tokens |-> {"quota"}],
      [cause |-> "timeout", tokens |-> {"timeout"}],
      [cause |-> "timeout", tokens |-> {"timed out"}],
      [cause |-> "http_500", tokens |-> {"500"}],
      [cause |-> "http_503", tokens |-> {"503"}],
      [cause |-> "http_400", tokens |-> {"400", "bad request"}],
      [cause |-> "invalid_input", tokens |-> {"invalid"}],
      [cause |-> "http_401", tokens |-> {"401", "unauthorized"}],
      [cause |-> "http_403", tokens |-> {"403", "forbidden"}],
      [cause |-> "http_404", tokens |-> {"404", "not found"}],
      [cause |-> "network", tokens |-> {"fetch failed"}] }

\* causes that are invalid input or a 4xx response other than 429
ClientCauses == {"invalid_input", "http_400", "http_401", "http_403", "http_404"}

NoError == [cause |-> "none", tokens |-> {}]

\* what generateText does in one call: throws an error or returns a text
Responses ==
    { [threw |-> TRUE, err |-> e, text |-> GarbageText] : e \in ApiErrors }
    \cup { [threw |-> FALSE, err |-> NoError, text |-> t] : t \in Texts }

NoResponse == [threw |-> FALSE, err |-> NoError, text |-> GarbageText]

-----------------------------------------------------------------------------
(* lib/ai/gemini-client.ts *)

\* errorMessage.includes(s)
Includes(tokens, s) == s \in tokens

\* the outcome of a call: a value returned, or an AnalysisError thrown
Returned(v) == [ok |-> TRUE, type |-> "none", message |-> "", value |-> v]
Threw(type, message) == [ok |-> FALSE, type |-> type, message |-> message, value |-> JsonNull]

NoOutcome == [ok |-> FALSE, type |-> "none", message |-> "", value |-> JsonNull]

\* faulty variant: a strategy whose text is not valid JSON gives way to the next
parseAnalysisJSON_FallsBack(text) ==
    IF text.block.m /\ text.block.valid THEN Returned(text.block.v)
    ELSE IF text.span.m /\ text.span.valid THEN Returned(text.span.v)
    ELSE IF text.whole.valid THEN Returned(text.whole.v)
    ELSE Threw(PARSING, "Failed to parse analysis JSON from Gemini response")

\* the three strategies in their order; JSON.parse throwing ends in the catch
parseAnalysisJSON(text) ==
    IF text.block.m
    THEN IF text.block.valid THEN Returned(text.block.v)
         ELSE Threw(PARSING, "Failed to parse analysis JSON from Gemini response")
    ELSE IF text.span.m
    THEN IF text.span.valid THEN Returned(text.span.v)
         ELSE Threw(PARSING, "Failed to parse analysis JSON from Gemini response")
    ELSE IF text.whole.valid THEN Returned(text.whole.v)
         ELSE Threw(PARSING, "Failed to parse analysis JSON from Gemini response")

\* reading a property of null throws a TypeError, which is no AnalysisError
validateAnalysisResult(v) ==
    IF v.kind = "null"
    THEN [ok |-> FALSE, type |-> "TypeError", message |-> "cannot read properties of null", value |-> JsonNull]
    ELSE IF v.scoreT # "number"
    THEN Threw(PARSING, "Invalid analysis result: missing redFlagScore")
    ELSE IF v.verdictT # "string"
    THEN Threw(PARSING, "Invalid analysis result: missing verdict")
    ELSE IF ~v.flagsArr
    THEN Threw(PARSING, "Invalid analysis result: missing criticalFlags array")
    ELSE Returned(v)

\* the catch block of analyzeWithGemini, for an error that is no AnalysisError
classifyError(tokens) ==
    IF Includes(tokens, "rate limit") \/ Includes(tokens, "quota") \/ Includes(tokens, "429")
    THEN Threw(TRANSIENT, "Gemini API rate limit exceeded")
    ELSE IF Includes(tokens, "timeout") \/ Includes(tokens, "timed out")
    THEN Threw(TRANSIENT, "Gemini API request timed out")
    ELSE IF Includes(tokens, "500") \/ Includes(tokens, "503")
    THEN Threw(TRANSIENT, "Gemini API server error")
    ELSE IF Includes(tokens, "400") \/ Includes(tokens, "invalid") \/ Includes(tokens, "bad request")
    THEN Threw(PERMANENT, "Invalid input to Gemini API")
    ELSE Threw(TRANSIENT, "Gemini API error")

analyzeWithGemini(resp) ==
    IF resp.threw THEN classifyError(resp.err.tokens)
    ELSE LET parsed == parseAnalysisJSON(resp.text) IN
         IF ~parsed.ok THEN parsed
         ELSE LET checked == validateAnalysisResult(parsed.value) IN
              IF checked.ok THEN checked
              ELSE IF checked.type \in ErrorType THEN checked
              ELSE classifyError({checked.message})

(* analyzeWithRetry *)

\* for (...; attempt < maxRetries; ...)
LoopContinues(a, m) == a < m

\* faulty variant: only PERMANENT errors are thrown as they are
NotRetried_OnlyPermanent(type) == type = PERMANENT

\* error.type === PERMANENT, error.type === PARSING: thrown as they are
NotRetried(type) == type = PERMANENT \/ type = PARSING

\* faulty variant: the retry test off by one
CanRetry_OffByOne(a, m) == a < m

\* if (attempt < maxRetries - 1)
CanRetry(a, m) == a < m - 1

\* delays[attempt]; setTimeout takes an undefined delay as 1 ms
DelayFor(a) == IF a + 1 \in DOMAIN delays THEN delays[a + 1] ELSE 1

\* faulty variant: the loop variable is not advanced
NextAttempt_NoIncrement(a) == a

\* attempt++
NextAttempt(a) == a + 1

ExhaustedError == Threw(TRANSIENT, "AI temporarily unavailable. Please try again later.")

\* entering the loop, or leaving it by its condition (the throw after the loop)
EnterLoop(a, m) ==
    IF LoopContinues(a, m)
    THEN /\ pc' = "attempt"
         /\ thrown' = thrown
    ELSE /\ pc' = "thrown"
         /\ thrown' = ExhaustedError

Invoke(m) ==
    /\ pc = "idle"
    /\ maxRetries' = m
    /\ attempt' = 0
    /\ EnterLoop(0, m)
    /\ UNCHANGED <<calls, inFlight, log, response, result, lastError>>
    /\ UNCHANGED <<detectVars, usageVars, authVars, fileVars>>

\* analyzeWithGemini(...) is called
CallGemini ==
    /\ pc = "attempt"
    /\ pc' = "inflight"
    /\ calls' = calls + 1
    /\ inFlight' = inFlight + 1
    /\ log' = Append(log, [ev |-> "call", n |-> attempt, out |-> "none"])
    /\ UNCHANGED <<attempt, maxRetries, response, result, thrown, lastError>>
    /\ UNCHANGED <<detectVars, usageVars, authVars, fileVars>>

\* faulty variant: a transient failure is retried at once, in the same attempt
GeminiSettles_RetriesInPlace(resp) ==
    /\ pc = "inflight"
    /\ LET o == analyzeWithGemini(resp) IN
       /\ response' = resp
       /\ lastError' = IF o.ok THEN NoOutcome ELSE o
       /\ IF o.ok
          THEN /\ pc' = "returned"
               /\ result' = o.value
               /\ inFlight' = inFlight - 1
               /\ log' = Append(log, [ev |-> "done", n |-> attempt, out |-> "ok"])
               /\ UNCHANGED thrown
          ELSE IF NotRetried(o.type)
          THEN /\ pc' = "thrown"
               /\ thrown' = o
               /\ inFlight' = inFlight - 1
               /\ log' = Append(log, [ev |-> "done", n |-> attempt, out |-> o.type])
               /\ UNCHANGED result
          ELSE /\ pc' = "inflight"
               /\ UNCHANGED <<inFlight, log, result, thrown>>
    /\ UNCHANGED <<attempt, maxRetries, calls>>
    /\ UNCHANGED <<detectVars, usageVars, authVars, fileVars>>

\* the awaited call settles: return, or the catch block
GeminiSettles(resp) ==
    /\ pc = "inflight"
    /\ LET o == analyzeWithGemini(resp) IN
       /\ response' = resp
       /\ inFlight' = inFlight - 1
       /\ lastError' = IF o.ok THEN NoOutcome ELSE o
       /\ IF o.ok
          THEN /\ pc' = "returned"
               /\ result' = o.value
               /\ log' = Append(log, [ev |-> "done", n |-> attempt, out |-> "ok"])
               /\ UNCHANGED thrown
          ELSE IF NotRetried(o.type)
          THEN /\ pc' = "thrown"
               /\ thrown' = o
               /\ log' = Append(log, [ev |-> "done", n |-> attempt, out |-> o.type])
               /\ UNCHANGED result
          ELSE IF CanRetry(attempt, maxRetries)
          THEN /\ pc' = "waiting"
               /\ log' = Append(Append(log, [ev |-> "done", n |-> attempt, out |-> o.type]),
                                [ev |-> "wait", n |-> DelayFor(attempt), out |-> "none"])
               /\ UNCHANGED <<result, thrown>>
          ELSE /\ pc' = "thrown"
               /\ thrown' = ExhaustedError
               /\ log' = Append(log, [ev |-> "done", n |-> attempt, out |-> o.type])
               /\ UNCHANGED result
    /\ UNCHANGED <<attempt, maxRetries, calls>>
    /\ UNCHANGED <<detectVars, usageVars, authVars, fileVars>>

\* the backoff timer fires: continue, attempt++, the loop condition
BackoffElapses ==
    /\ pc = "waiting"
    /\ attempt' = NextAttempt(attempt)
    /\ EnterLoop(NextAttempt(attempt), maxRetries)
    /\ UNCHANGED <<maxRetries, calls, inFlight, log, response, result, lastError>>
    /\ UNCHANGED <<detectVars, usageVars, authVars, fileVars>>

InitRetry ==
    /\ pc = "idle"
    /\ attempt = 0
    /\ maxRetries = maxAttempts
    /\ calls = 0
    /\ inFlight = 0
    /\ log = <<>>
    /\ response = NoResponse
    /\ result = JsonNull
    /\ thrown = NoOutcome
    /\ lastError = NoOutcome

NextRetry ==
    \/ \E m \in 0..MaxRetriesArg : Invoke(m)
    \/ CallGemini
    \/ \E resp \in Responses : GeminiSettles(resp)
    \/ BackoffElapses

\* the event loop runs the function on, every awaited call settles and every
\* timer fires
FairRetry ==
    /\ WF_vars(CallGemini)
    /\ WF_vars(\E resp \in Responses : GeminiSettles(resp))
    /\ WF_vars(BackoffElapses)

-----------------------------------------------------------------------------
(* Properties of analyzeWithRetry *)

IsWait(e) == e.ev = "wait"
IsDone(e) == e.ev = "done"

\* the delays of the waits applied so far, in order
Waits == [i \in DOMAIN SelectSeq(log, IsWait) |-> SelectSeq(log, IsWait)[i].n]

Finished == pc \in {"returned", "thrown"}

\* C1: a call that fails with a PERMANENT or PARSING error is the last event of
\* the invocation: analyzeWithRetry throws that very error, its type unchanged,
\* and starts no further call.
C1_NonTransientNotRetried ==
    \A i \in DOMAIN log :
        (log[i].ev = "done" /\ log[i].out \in {PERMANENT, PARSING}) =>
            /\ i = Len(log)
            /\ pc = "thrown"
            /\ thrown = lastError
            /\ thrown.type = log[i].out
            /\ inFlight = 0
            /\ calls = log[i].n + 1

C1_Witness ==
    /\ pc = "thrown"
    /\ Len(log) > 2
    /\ log[Len(log)].ev = "done"
    /\ log[Len(log)].out = PARSING
    /\ thrown.type = PARSING

\* C2: at most maxRetries calls of analyzeWithGemini, never two in flight, and
\* a successful call is the last event: its value is what is returned.
C2_BoundedSequentialCalls ==
    /\ calls <= maxRetries
    /\ calls = Cardinality({i \in DOMAIN log : log[i].ev = "call"})
    /\ inFlight \in {0, 1}
    /\ inFlight = 1 <=> pc = "inflight"
    /\ \A i \in DOMAIN log :
           (log[i].ev = "done" /\ log[i].out = "ok") =>
               /\ i = Len(log)
               /\ pc = "returned"
               /\ ~response.threw
               /\ result = analyzeWithGemini(response).value
    /\ pc = "returned" => log[Len(log)].out = "ok"

C2_Witness ==
    /\ pc = "returned"
    /\ maxRetries = maxAttempts
    /\ calls = maxAttempts

\* C3: a wait follows a call that failed with a TRANSIENT error at an attempt
\* i < maxRetries - 1, lasts delays[i] ms, and is followed by attempt i + 1;
\* every attempt but the first is preceded by a wait; no wait follows another
\* kind of failure or the final attempt.
C3_WaitBetweenAttempts ==
    /\ \A i \in DOMAIN log :
           log[i].ev = "wait" =>
               /\ i > 1
               /\ log[i - 1].ev = "done"
               /\ log[i - 1].out = TRANSIENT
               /\ log[i - 1].n < maxRetries - 1
               /\ (log[i - 1].n + 1 \in DOMAIN delays => log[i].n = delays[log[i - 1].n + 1])
               /\ IF i < Len(log)
                  THEN log[i + 1].ev = "call" /\ log[i + 1].n = log[i - 1].n + 1
                  ELSE pc \in {"waiting", "attempt"}
    /\ \A i \in DOMAIN log :
           (log[i].ev = "call" /\ i > 1) => log[i - 1].ev = "wait"
    /\ \A i \in DOMAIN log :
           (log[i].ev = "done" /\ log[i].out = TRANSIENT /\ log[i].n < maxRetries - 1) =>
               (i < Len(log) /\ log[i + 1].ev = "wait")
    /\ \A i \in DOMAIN log :
           (log[i].ev = "done" /\ log[i].n >= maxRetries - 1) => (i = Len(log) /\ Finished)

C3_Witness ==
    /\ maxRetries = maxAttempts
    /\ Waits = <<1000, 3000>>
    /\ pc = "inflight"
    /\ attempt = 2

\* C4: with the default configuration, when every attempt fails transiently
\* the waits applied are 1000, 3000 and 5000 ms, in that order.
C4_AllThreeDelaysUsed ==
    (/\ pc = "thrown"
     /\ maxRetries = maxAttempts
     /\ calls = maxAttempts
     /\ \A i \in DOMAIN log : log[i].ev = "done" => log[i].out = TRANSIENT)
        => Waits = delays

\* C5: a failure caused by invalid input or by a 4xx response other than 429
\* is classified PERMANENT and surfaced without a retry.
C5_ClientErrorsArePermanent ==
    (response.threw /\ response.err.cause \in ClientCauses) =>
        /\ lastError.type = PERMANENT
        /\ pc = "thrown"
        /\ thrown = lastError

\* C6: a returned AnalysisResult holds all seven required fields.
C6_AllRequiredFields ==
    pc = "returned" => requiredFields \subseteq FieldsOf(result)

\* C7: the redFlagScore of a returned AnalysisResult lies in
\* minRedFlagScore..maxRedFlagScore.
C7_ScoreInRange ==
    pc = "returned" => result.score \in minRedFlagScore..maxRedFlagScore

\* C22: an invocation of analyzeWithRetry eventually finishes, by returning a
\* result or by throwing, whatever the calls of analyzeWithGemini do and
\* whatever maxRetries is, when every call settles and every wait ends.
C22_InvocationFinishes == (pc # "idle") ~> Finished

C22_Witness ==
    /\ pc = "thrown"
    /\ maxRetries = MaxRetriesArg
    /\ calls = MaxRetriesArg
    /\ Len(Waits) = MaxRetriesArg - 1
    /\ thrown = ExhaustedError

\* a call of analyzeWithGemini has settled
Settled == \E i \in DOMAIN log : log[i].ev = "done"

\* what the first strategy whose pattern matches finds; the whole text is
\* tried when neither pattern matches
FirstMatch(text) ==
    IF text.block.m THEN text.block
    ELSE IF text.span.m THEN text.span
    ELSE text.whole

ParseFailure == Threw(PARSING, "Failed to parse analysis JSON from Gemini response")

\* C23: the strategies are tried in the order code block, {...} span with
\* "redFlagScore", whole text, and the first whose pattern matches decides
\* alone: text that is not valid JSON gives a PARSING error, with no fallback
\* to a later strategy, and valid JSON gives the value that is validated.
C23_FirstMatchDecides ==
    (Settled /\ ~response.threw) =>
        IF FirstMatch(response.text).valid
        THEN /\ lastError # ParseFailure
             /\ pc = "returned" => result = FirstMatch(response.text).v
             /\ pc = "returned" <=> validateAnalysisResult(FirstMatch(response.text).v).ok
        ELSE /\ pc = "thrown"
             /\ lastError = ParseFailure
             /\ thrown = ParseFailure

C23_Witness ==
    /\ response.text \in BrokenFenceTexts
    /\ validateAnalysisResult(response.text.span.v).ok
    /\ pc = "thrown"
    /\ thrown = ParseFailure

-----------------------------------------------------------------------------
(* lib/ai/category-detector (detectCategory)                                *)
(* Confidences are in hundredths: 0.7 is 70, 1 is 100.                      *)

\* AI_CONFIG.categoryDetection
confidenceThreshold == 70
fallbackCategory == "general"

validCategories == {"dating", "conversations", "jobs", "housing", "marketplace", "general"}

\* a JavaScript number: NaN, or a value in hundredths
Num(n) == [nan |-> FALSE, n |-> n]
NaN == [nan |-> TRUE, n |-> 0]

\* the JSON value of a "confidence" property, or its absence
ConfidenceValues ==
    { [t |-> "number", n |-> n] : n \in {-10, 0, 50, 69, 70, 95, 100, 150} }
    \cup { [t |-> "string", n |-> 90],       \* "0.9"
           [t |-> "text", n |-> 0],          \* "high"
           [t |-> "undefined", n |-> 0],
           [t |-> "null", n |-> 0],
           [t |-> "true", n |-> 0] }

\* Number(x)
ToNumber(c) ==
    CASE c.t = "number" -> Num(c.n)
      [] c.t = "string" -> Num(c.n)
      [] c.t = "text" -> NaN
      [] c.t = "undefined" -> NaN
      [] c.t = "null" -> Num(0)
      [] c.t = "true" -> Num(100)

\* a < b, a > b on JavaScript numbers: false when either is NaN
NumLt(a, b) == ~a.nan /\ ~b.nan /\ a.n < b.n
NumGt(a, b) == ~a.nan /\ ~b.nan /\ a.n > b.n

\* the "category" property: a valid category, another string, or absent
CategoryValues == validCategories \cup {"scam", "undefined"}

DetectionNull == [kind |-> "null", category |-> "undefined", confidence |-> [t |-> "undefined", n |-> 0]]

DetectionValues ==
    { [kind |-> "object", category |-> c, confidence |-> k] :
        c \in CategoryValues, k \in ConfidenceValues } \cup {DetectionNull}

DNoMatch == [m |-> FALSE, valid |-> FALSE, v |-> DetectionNull]
DJson(v) == [m |-> TRUE, valid |-> TRUE, v |-> v]
DBadJson == [m |-> TRUE, valid |-> FALSE, v |-> DetectionNull]

HasCategoryKey(v) == v.kind = "object" /\ v.category # "undefined"

\* the text generateText returns, by what the three strategies of
\* parseDetectionResult find in it
DetectionTexts ==
    { [block |-> DNoMatch,
       span |-> IF HasCategoryKey(v) THEN DJson(v) ELSE DNoMatch,
       whole |-> DJson(v)] : v \in DetectionValues }
    \cup { [block |-> DJson(v),
            span |-> IF HasCategoryKey(v) THEN DBadJson ELSE DNoMatch,
            whole |-> DBadJson] : v \in DetectionValues }
    \cup { [block |-> DNoMatch, span |-> DJson(v), whole |-> DBadJson] :
            v \in { w \in DetectionValues : HasCategoryKey(w) } }
    \cup { [block |-> DBadJson, span |-> DJson(v), whole |-> DBadJson] :
            v \in { w \in DetectionValues : HasCategoryKey(w) } }
    \cup { [block |-> DNoMatch, span |-> DNoMatch, whole |-> DBadJson] }

DetectionInputs ==
    { [threw |-> TRUE, text |-> [block |-> DNoMatch, span |-> DNoMatch, whole |-> DBadJson]] }
    \cup { [threw |-> FALSE, text |-> t] : t \in DetectionTexts }

NoDetectionInput == [threw |-> TRUE, text |-> [block |-> DNoMatch, span |-> DNoMatch, whole |-> DBadJson]]

Detection(category, confidence, reasoning) ==
    [category |-> category, confidence |-> confidence, reasoning |-> reasoning]

NoDetection == Detection("none", Num(0), "none")

validateDetectionResult(parsed) ==
    LET category == parsed.category
        confidence == ToNumber(parsed.confidence)
    IN  IF category \notin validCategories
        THEN Detection("general", Num(50), "Invalid category, falling back to general")
        ELSE IF confidence.nan \/ NumLt(confidence, Num(0)) \/ NumGt(confidence, Num(100))
        THEN Detection(category, Num(50), "parsed.reasoning")
        ELSE Detection(category, confidence, "parsed.reasoning")

\* JSON.parse fails, or validateDetectionResult reads a property of null
ParseFailed == Detection("general", Num(50), "Failed to parse detection result")

ValidateParsed(c) ==
    IF ~c.valid \/ c.v.kind = "null" THEN ParseFailed ELSE validateDetectionResult(c.v)

parseDetectionResult(text) ==
    IF text.block.m THEN ValidateParsed(text.block)
    ELSE IF text.span.m THEN ValidateParsed(text.span)
    ELSE ValidateParsed(text.whole)

\* faulty variant: the threshold test the wrong way round
BelowThreshold_Inverted(confidence) == NumGt(confidence, Num(confidenceThreshold))

\* result.confidence < AI_CONFIG.categoryDetection.confidenceThreshold
BelowThreshold(confidence) == NumLt(confidence, Num(confidenceThreshold))

detectCategory(input) ==
    IF input.threw
    THEN Detection("general", Num(50), "Error during detection, falling back to general category")
    ELSE LET r == parseDetectionResult(input.text) IN
         IF BelowThreshold(r.confidence)
         THEN Detection(fallbackCategory, r.confidence, "Low confidence, using general category")
         ELSE r

\* detectCategory is called: generateText is awaited
DetectCalled ==
    /\ dPc = "idle"
    /\ dPc' = "called"
    /\ UNCHANGED <<dInput, dResult>>
    /\ UNCHANGED <<retryVars, usageVars, authVars, fileVars>>

\* generateText settles and detectCategory returns
DetectSettles(input) ==
    /\ dPc = "called"
    /\ dPc' = "done"
    /\ dInput' = input
    /\ dResult' = detectCategory(input)
    /\ UNCHANGED <<retryVars, usageVars, authVars, fileVars>>

InitDetect ==
    /\ dPc = "idle"
    /\ dInput = NoDetectionInput
    /\ dResult = NoDetection

NextDetect ==
    \/ DetectCalled
    \/ \E input \in DetectionInputs : DetectSettles(input)

\* C8: a result of detectCategory with confidence below 0.7 has category
\* 'general': another category is only returned with confidence >= 0.7, on
\* every path (invalid category, missing, non-numeric or out-of-range
\* confidence, unparseable output, failure of the AI call).
C8_LowConfidenceIsGeneral ==
    dPc = "done" =>
        /\ ~dResult.confidence.nan
        /\ (dResult.confidence.n < 70 => dResult.category = "general")
        /\ (dResult.category # "general" => dResult.confidence.n >= 70)
        /\ dResult.category \in validCategories

\* the model named "dating" with confidence 0.5, and "general" was returned
C8_Witness ==
    /\ dPc = "done"
    /\ ~dInput.threw
    /\ dInput.text.whole.valid
    /\ dInput.text.whole.v.category = "dating"
    /\ dInput.text.whole.v.confidence = [t |-> "number", n |-> 50]
    /\ dResult.category = "general"
    /\ dResult.confidence = Num(50)

-----------------------------------------------------------------------------
(* Usage counters: lib/db/queries (getUserDailyUsage, getUserMonthlyUsage,  *)
(* incrementUsage) and app/(chat)/api/usage/route.ts                        *)

\* the users with an account; the one who sends analysis requests
Users == {"u1", "u2"}
Requesters == {"u1"}

Slots == 1..NumRequests

Days == 1..MaxDay

\* the calendar month of a day (date.slice(0, 7), to_char(date, 'YYYY-MM'))
MonthOf(d) == (d - 1) \div DaysPerMonth

\* AI_CONFIG.rateLimits
dailyAnalyses == 2
monthlyAnalyses == 10

\* the limits of GET /api/usage
dailyLimit == 2
monthlyLimit == 10

RECURSIVE SumCounts(_)
\* sum(usageLogs.analysisCount) over a set of rows
SumCounts(rows) ==
    IF rows = {} THEN 0
    ELSE LET r == CHOOSE x \in rows : TRUE IN r.analysisCount + SumCounts(rows \ {r})

\* where userId = u and date = d
RowsOfDay(u, d) == { r \in usageLogs : r.userId = u /\ r.date = d }

\* where userId = u and the date lies in month m
RowsOfMonth(u, m) == { r \in usageLogs : r.userId = u /\ MonthOf(r.date) = m }

getUserDailyUsage(u, d) == SumCounts(RowsOfDay(u, d))

getUserMonthlyUsage(u, m) == SumCounts(RowsOfMonth(u, m))

NoRow == [id |-> 0, userId |-> "none", date |-> 0, analysisCount |-> 0]

IdleChat == [pc |-> "idle", user |-> "none", existing |-> NoRow, day |-> 0, status |-> 0]

\* POST /api/chat, an analysis request of user u: the rate limit checks.
\* 429 when a limit is reached; otherwise the analysis starts.
ChatRateLimitCheck(s, u) ==
    /\ chat[s].pc = "idle"
    /\ requests < MaxRequests
    /\ requests' = requests + 1
    /\ IF \/ getUserDailyUsage(u, today) >= dailyAnalyses
          \/ getUserMonthlyUsage(u, MonthOf(today)) >= monthlyAnalyses
       THEN chat' = [chat EXCEPT ![s] = [IdleChat EXCEPT !.status = 429]]
       ELSE chat' = [chat EXCEPT ![s] = [IdleChat EXCEPT !.pc = "analysing", !.user = u]]
    /\ UNCHANGED <<usageLogs, today, usageReq, increments>>
    /\ UNCHANGED <<retryVars, detectVars, authVars, fileVars>>

\* incrementUsage: today, and the select of today's entry (any one of them
\* when several rows match)
IncrementUsageSelect(s) ==
    /\ chat[s].pc = "analysing"
    /\ LET rows == RowsOfDay(chat[s].user, today) IN
       \E r \in (IF rows = {} THEN {NoRow} ELSE rows) :
           chat' = [chat EXCEPT ![s].pc = "selected", ![s].existing = r, ![s].day = today]
    /\ UNCHANGED <<usageLogs, today, usageReq, requests, increments>>
    /\ UNCHANGED <<retryVars, detectVars, authVars, fileVars>>

\* incrementUsage: update of the entry that was read, or insert of a new one
IncrementUsageWrite(s) ==
    /\ chat[s].pc = "selected"
    /\ LET e == chat[s].existing IN
       IF e # NoRow
       THEN usageLogs' = { IF r.id = e.id
                           THEN [r EXCEPT !.analysisCount = e.analysisCount + 1]
                           ELSE r : r \in usageLogs }
       ELSE usageLogs' = usageLogs \cup
                { [id |-> Cardinality(usageLogs) + 1, userId |-> chat[s].user,
                   date |-> chat[s].day, analysisCount |-> 1] }
    /\ chat' = [chat EXCEPT ![s] = [IdleChat EXCEPT !.status = 200]]
    /\ increments' = [increments EXCEPT ![chat[s].user, chat[s].day] = @ + 1]
    /\ UNCHANGED <<today, usageReq, requests>>
    /\ UNCHANGED <<retryVars, detectVars, authVars, fileVars>>

\* midnight UTC
Midnight ==
    /\ today < MaxDay
    /\ today' = today + 1
    /\ UNCHANGED <<usageLogs, chat, usageReq, requests, increments>>
    /\ UNCHANGED <<retryVars, detectVars, authVars, fileVars>>

(* GET /api/usage *)

NoUsage == [status |-> 0, hasUsage |-> FALSE, dailyUsage |-> 0, dailyLimit |-> 0,
            monthlyUsage |-> 0, monthlyLimit |-> 0, canAnalyze |-> FALSE]

IdleUsageReq == [pc |-> "idle", session |-> "none", day |-> 0, dailyUsage |-> 0, response |-> NoUsage]

\* faulty variant: either limit left is enough
CanAnalyze_Either(daily, monthly) == daily < dailyLimit \/ monthly < monthlyLimit

\* dailyUsage < dailyLimit && monthlyUsage < monthlyLimit
CanAnalyze(daily, monthly) == daily < dailyLimit /\ monthly < monthlyLimit

\* auth(), and for a session the daily query: the first matching row
UsageGet(session) ==
    /\ usageReq.pc = "idle"
    /\ IF session = "none"
       THEN usageReq' = [IdleUsageReq EXCEPT !.pc = "done", !.response = [NoUsage EXCEPT !.status = 401]]
       ELSE LET rows == RowsOfDay(session, today) IN
            \E r \in (IF rows = {} THEN {NoRow} ELSE rows) :
                usageReq' = [pc |-> "daily", session |-> session, day |-> today,
                             dailyUsage |-> r.analysisCount, response |-> NoUsage]
    /\ UNCHANGED <<usageLogs, today, chat, requests, increments>>
    /\ UNCHANGED <<retryVars, detectVars, authVars, fileVars>>

\* the monthly query and the response
UsageGetMonthly ==
    /\ usageReq.pc = "daily"
    /\ LET monthly == getUserMonthlyUsage(usageReq.session, MonthOf(usageReq.day)) IN
       usageReq' = [usageReq EXCEPT
                       !.pc = "done",
                       !.response = [status |-> 200, hasUsage |-> TRUE,
                                     dailyUsage |-> usageReq.dailyUsage,
                                     dailyLimit |-> dailyLimit,
                                     monthlyUsage |-> monthly,
                                     monthlyLimit |-> monthlyLimit,
                                     canAnalyze |-> CanAnalyze(usageReq.dailyUsage, monthly)]]
    /\ UNCHANGED <<usageLogs, today, chat, requests, increments>>
    /\ UNCHANGED <<retryVars, detectVars, authVars, fileVars>>

\* a query throws: the catch block
UsageGetFails ==
    /\ usageReq.pc = "daily"
    /\ usageReq' = [usageReq EXCEPT !.pc = "done", !.response = [NoUsage EXCEPT !.status = 500]]
    /\ UNCHANGED <<usageLogs, today, chat, requests, increments>>
    /\ UNCHANGED <<retryVars, detectVars, authVars, fileVars>>

\* the table after k days on which user u made the two analyses a day allows
FullDays(u, k) ==
    { [id |-> d, userId |-> u, date |-> d, analysisCount |-> dailyAnalyses] : d \in 1..k }

\* the row of another user, who has used up the day
OtherUsersRow(u, k, d) ==
    [id |-> k + 1, userId |-> u, date |-> d, analysisCount |-> dailyAnalyses]

\* two days before the end of a month, the requesting user having used up
\* the first k days of it
UsageStart(k) ==
    /\ today = DaysPerMonth - 1
    /\ usageLogs = FullDays("u1", k) \cup {OtherUsersRow("u2", k, today)}
    /\ requests = 0
    /\ chat = [s \in Slots |-> IdleChat]
    /\ usageReq = IdleUsageReq
    /\ increments = [u \in Requesters, d \in Days |-> IF d <= k THEN dailyAnalyses ELSE 0]

\* the requesting user is new, or has used up every day of the month so far
InitUsage == \E k \in {0, DaysPerMonth - 2} : UsageStart(k)

NextUsage ==
    \/ \E s \in Slots, u \in Requesters : ChatRateLimitCheck(s, u)
    \/ \E s \in Slots : IncrementUsageSelect(s)
    \/ \E s \in Slots : IncrementUsageWrite(s)
    \/ Midnight
    \/ \E session \in Users \cup {"none"} : UsageGet(session)
    \/ UsageGetMonthly
    \/ UsageGetFails

\* C9: GET /api/usage reports dailyLimit 2 and monthlyLimit 10, and canAnalyze
\* is true exactly when dailyUsage < 2 and monthlyUsage < 10; a request
\* without a session gets 401 and no usage data.
C9_UsageReport ==
    usageReq.pc = "done" =>
        LET r == usageReq.response IN
        /\ r.status \in {200, 401, 500}
        /\ r.status = 401 <=> usageReq.session = "none"
        /\ r.status # 200 => ~r.hasUsage
        /\ r.status = 200 =>
               /\ r.hasUsage
               /\ r.dailyLimit = 2
               /\ r.monthlyLimit = 10
               /\ r.canAnalyze <=> (r.dailyUsage < 2 /\ r.monthlyUsage < 10)

\* the month is used up on a day that is not
C9_Witness ==
    /\ usageReq.pc = "done"
    /\ usageReq.response.status = 200
    /\ usageReq.response.dailyUsage < 2
    /\ usageReq.response.monthlyUsage >= 10
    /\ ~usageReq.response.canAnalyze

\* C10: no user has more than 2 analyses recorded for a day, nor more than 10
\* for a calendar month.
C10_RateLimitsEnforced ==
    \A u \in Users :
        /\ \A d \in Days : getUserDailyUsage(u, d) <= 2
        /\ \A d \in Days : getUserMonthlyUsage(u, MonthOf(d)) <= 10

\* C17: the analyses recorded for a user and a day are as many as the
\* incrementUsage calls completed for that user and day: none is lost.
C17_NoLostIncrement ==
    \A u \in Requesters : \A d \in Days : getUserDailyUsage(u, d) = increments[u, d]

\* C18: the UsageLogs table has at most one row per user and date, so the
\* dailyUsage that GET /api/usage reads from the first matching row is the
\* sum getUserDailyUsage computes, and it never exceeds the monthlyUsage
\* reported with it.
C18_OneRowPerUserDate ==
    /\ [](\A r1 \in usageLogs : \A r2 \in usageLogs :
             (r1.userId = r2.userId /\ r1.date = r2.date) => r1.id = r2.id)
    /\ [](usageReq.response.status = 200
             => usageReq.response.dailyUsage <= usageReq.response.monthlyUsage)
    /\ [][(usageReq.pc = "idle" /\ usageReq'.pc = "daily")
             => usageReq'.dailyUsage =
                    getUserDailyUsage(usageReq'.session, usageReq'.day)]_vars

-----------------------------------------------------------------------------
(* Email verification: POST /api/auth/signup, POST /api/auth/resend-verification, *)
(* GET /api/auth/verify-email and the credentials provider's authorize          *)

\* a NULL column of the User table
Null == -1

\* the lifetime of a verification token: 24 * 60 * 60 * 1000 ms, in hours
tokenLifetime == 24

AuthSlots == 1..NumAuthSlots

Emails == {"a@x.io", "g@x.io"}

\* a body that fails the zod schema of the route
InvalidEmail == "not-an-email"

SignupPasswords == {"password1"}

LoginPasswords == {"password1", "password2"}

\* the tokens nanoid can return, and the missing token parameter
Tokens == 1..MaxTokens

NoToken == 0

\* bcryptjs: hash and compare
hash(password) == [alg |-> "bcrypt", of |-> password]

NoPassword == [alg |-> "none", of |-> ""]

compare(password, hashed) == hashed = hash(password)

\* a user created by the GitHub provider through the DrizzleAdapter: no
\* password, no verification token
OAuthUser ==
    [id |-> 1, email |-> "g@x.io", password |-> NoPassword, emailVerified |-> Null,
     verificationToken |-> Null, verificationTokenExpiry |-> Null]

NoUser == [id |-> 0]

\* db.select().from(user).where(eq(user.email, email))
getUser(email) == { u \in users : u.email = email }

\* the first row of a select without ORDER BY: any of the matching rows
FirstOf(rows) == IF rows = {} THEN {NoUser} ELSE rows

\* the responses of the three routes
Answer(status, message) == [status |-> status, message |-> message]

NoAnswer == Answer(0, "")

ValidationError == Answer(400, "Invalid email address")

AccountExists == Answer(400, "Account already exists. Please sign in.")

VerificationResent ==
    Answer(200, "Account exists but not verified. Verification email resent! Please check your inbox.")

AccountCreated ==
    Answer(200, "Account created successfully. Please check your email to verify your account.")

NoAccountAnswer ==
    Answer(200, "If an account exists with this email, a verification link has been sent.")

AlreadyVerifiedAnswer == Answer(200, "Email already verified. Please sign in.")

EmailSent == Answer(200, "Verification email sent! Please check your inbox.")

EmailNotSent == Answer(500, "Failed to send verification email. Please try again.")

MissingToken == Answer(400, "The verification link is invalid or missing the verification token.")

InvalidLink == Answer(404, "This verification link is invalid or has already been used.")

AlreadyVerifiedPage == Answer(200, "Your email has already been verified. You can sign in now.")

VerifiedPage == Answer(200, "Your email has been verified. You can now sign in to your account.")

IdleAuth ==
    [pc |-> "idle", route |-> "none", email |-> "", token |-> NoToken, found |-> 0,
     answer |-> NoAnswer]

Answered(s, route, email, token, answer) ==
    [authReq EXCEPT ![s] = [pc |-> "done", route |-> route, email |-> email,
                            token |-> token, found |-> 0, answer |-> answer]]

Awaiting(s, pcNext, route, email, token, found) ==
    [authReq EXCEPT ![s] = [pc |-> pcNext, route |-> route, email |-> email,
                            token |-> token, found |-> found, answer |-> NoAnswer]]

\* a slot takes a new request
Accepts(s) ==
    /\ authReq[s].pc \in {"idle", "done"}
    /\ authCount < MaxAuthRequests
    /\ authCount' = authCount + 1

\* the row with a fresh token that expires in 24 hours
WithNewToken(u, token) ==
    [u EXCEPT !.verificationToken = token, !.verificationTokenExpiry = clock + tokenLifetime]

\* db.update(user).set({verificationToken, verificationTokenExpiry}).where(eq(user.id, id))
UpdateToken(id, token) == { IF u.id = id THEN WithNewToken(u, token) ELSE u : u \in users }

\* POST /api/auth/signup: validation and the select of the existing user
SignupSelect(s, email) ==
    /\ Accepts(s)
    /\ IF email = InvalidEmail
       THEN authReq' = Answered(s, "signup", email, NoToken, ValidationError)
       ELSE \E existingUser \in FirstOf(getUser(email)) :
                IF existingUser = NoUser
                THEN authReq' = Awaiting(s, "insert", "signup", email, NoToken, 0)
                ELSE IF existingUser.emailVerified # Null
                THEN authReq' = Answered(s, "signup", email, NoToken, AccountExists)
                ELSE authReq' = Awaiting(s, "resend", "signup", email, NoToken, existingUser.id)
    /\ UNCHANGED <<users, clock, issued, verifications, authorized>>
    /\ UNCHANGED <<retryVars, detectVars, usageVars, fileVars>>

\* POST /api/auth/signup: the user exists and is not verified, a new token is
\* stored and mailed
SignupResend(s) ==
    /\ authReq[s].pc = "resend"
    /\ authReq[s].route = "signup"
    /\ issued < MaxTokens
    /\ issued' = issued + 1
    /\ users' = UpdateToken(authReq[s].found, issued + 1)
    /\ authReq' = Answered(s, "signup", authReq[s].email, issued + 1, VerificationResent)
    /\ UNCHANGED <<clock, authCount, verifications, authorized>>
    /\ UNCHANGED <<retryVars, detectVars, usageVars, fileVars>>

\* the row inserted by signup
NewUser(id, email, password, token) ==
    [id |-> id, email |-> email, password |-> hash(password), emailVerified |-> Null,
     verificationToken |-> token, verificationTokenExpiry |-> clock + tokenLifetime]

\* POST /api/auth/signup: no user was found, one is inserted
SignupInsert(s, password) ==
    /\ authReq[s].pc = "insert"
    /\ issued < MaxTokens
    /\ issued' = issued + 1
    /\ users' = users \cup
           { NewUser(Cardinality(users) + 1, authReq[s].email, password, issued + 1) }
    /\ authReq' = Answered(s, "signup", authReq[s].email, issued + 1, AccountCreated)
    /\ UNCHANGED <<clock, authCount, verifications, authorized>>
    /\ UNCHANGED <<retryVars, detectVars, usageVars, fileVars>>

\* POST /api/auth/resend-verification: validation and the select of the user
ResendSelect(s, email) ==
    /\ Accepts(s)
    /\ IF email = InvalidEmail
       THEN authReq' = Answered(s, "resend-verification", email, NoToken, ValidationError)
       ELSE \E foundUser \in FirstOf(getUser(email)) :
                IF foundUser = NoUser
                THEN authReq' = Answered(s, "resend-verification", email, NoToken,
                                         NoAccountAnswer)
                ELSE IF foundUser.emailVerified # Null
                THEN authReq' = Answered(s, "resend-verification", email, NoToken,
                                         AlreadyVerifiedAnswer)
                ELSE authReq' = Awaiting(s, "resend", "resend-verification", email, NoToken,
                                         foundUser.id)
    /\ UNCHANGED <<users, clock, issued, verifications, authorized>>
    /\ UNCHANGED <<retryVars, detectVars, usageVars, fileVars>>

\* POST /api/auth/resend-verification: a new token is stored and mailed
ResendUpdate(s, emailResult) ==
    /\ authReq[s].pc = "resend"
    /\ authReq[s].route = "resend-verification"
    /\ issued < MaxTokens
    /\ issued' = issued + 1
    /\ users' = UpdateToken(authReq[s].found, issued + 1)
    /\ authReq' = Answered(s, "resend-verification", authReq[s].email, issued + 1,
                           IF emailResult THEN EmailSent ELSE EmailNotSent)
    /\ UNCHANGED <<clock, authCount, verifications, authorized>>
    /\ UNCHANGED <<retryVars, detectVars, usageVars, fileVars>>

\* db.select().from(user).where(eq(user.verificationToken, token))
UsersWithToken(token) == { u \in users : u.verificationToken = token }

\* GET /api/auth/verify-email: the token parameter and the select of its user;
\* the token is missing, one that was generated, or the next one, which no
\* row holds
VerifySelect(s, token) ==
    /\ Accepts(s)
    /\ token <= issued + 1
    /\ IF token = NoToken
       THEN authReq' = Answered(s, "verify-email", "", token, MissingToken)
       ELSE \E foundUser \in FirstOf(UsersWithToken(token)) :
                IF foundUser = NoUser
                THEN authReq' = Answered(s, "verify-email", "", token, InvalidLink)
                ELSE IF foundUser.emailVerified # Null
                THEN authReq' = Answered(s, "verify-email", "", token, AlreadyVerifiedPage)
                ELSE authReq' = Awaiting(s, "verify", "verify-email", "", token, foundUser.id)
    /\ UNCHANGED <<users, clock, issued, verifications, authorized>>
    /\ UNCHANGED <<retryVars, detectVars, usageVars, fileVars>>

\* faulty variant: the token stays in the row
Verified_KeepsToken(u) == [u EXCEPT !.emailVerified = clock]

\* the row marked as verified, its token cleared
Verified(u) == [u EXCEPT !.emailVerified = clock, !.verificationToken = Null]

\* GET /api/auth/verify-email: the user is marked as verified
VerifyUpdate(s) ==
    /\ authReq[s].pc = "verify"
    /\ users' = { IF u.id = authReq[s].found THEN Verified(u) ELSE u : u \in users }
    /\ verifications' = verifications \cup
           { [user |-> authReq[s].found, token |-> authReq[s].token] }
    /\ authReq' = Answered(s, "verify-email", "", authReq[s].token, VerifiedPage)
    /\ UNCHANGED <<clock, authCount, issued, authorized>>
    /\ UNCHANGED <<retryVars, detectVars, usageVars, fileVars>>

\* faulty variant: the emailVerified check is missing
authorize_Unverified(user, password) ==
    IF user = NoUser THEN NoUser
    ELSE IF user.password = NoPassword THEN NoUser
    ELSE IF ~compare(password, user.password) THEN NoUser
    ELSE user

\* authorize of the credentials provider, for the first row getUser returned
authorize(user, password) ==
    IF user = NoUser THEN NoUser
    ELSE IF user.password = NoPassword THEN NoUser
    ELSE IF user.emailVerified = Null THEN NoUser
    ELSE IF ~compare(password, user.password) THEN NoUser
    ELSE user

NoSession == [email |-> "", password |-> "", user |-> NoUser]

\* a credentials login
Login(email, password) ==
    /\ authCount < MaxAuthRequests
    /\ authCount' = authCount + 1
    /\ \E user \in FirstOf(getUser(email)) :
           authorized' = [email |-> email, password |-> password,
                       user |-> authorize(user, password)]
    /\ UNCHANGED <<users, clock, authReq, issued, verifications>>
    /\ UNCHANGED <<retryVars, detectVars, usageVars, fileVars>>

\* time passes
Tick ==
    /\ clock + ClockStep <= MaxClock
    /\ clock' = clock + ClockStep
    /\ UNCHANGED <<users, authReq, authCount, issued, verifications, authorized>>
    /\ UNCHANGED <<retryVars, detectVars, usageVars, fileVars>>

InitAuth ==
    /\ users = {OAuthUser}
    /\ clock = 0
    /\ authReq = [s \in AuthSlots |-> IdleAuth]
    /\ authCount = 0
    /\ issued = 0
    /\ verifications = {}
    /\ authorized = NoSession

NextAuth ==
    \/ \E s \in AuthSlots, email \in Emails \cup {InvalidEmail} : SignupSelect(s, email)
    \/ \E s \in AuthSlots : SignupResend(s)
    \/ \E s \in AuthSlots, password \in SignupPasswords : SignupInsert(s, password)
    \/ \E s \in AuthSlots, email \in Emails \cup {InvalidEmail} : ResendSelect(s, email)
    \/ \E s \in AuthSlots, emailResult \in BOOLEAN : ResendUpdate(s, emailResult)
    \/ \E s \in AuthSlots, token \in Tokens \cup {NoToken} : VerifySelect(s, token)
    \/ \E s \in AuthSlots : VerifyUpdate(s)
    \/ \E email \in Emails, password \in LoginPasswords : Login(email, password)
    \/ Tick

\* C11: a credentials login succeeds only for an existing account with a stored
\* password that matches and with emailVerified set; so no login succeeds for
\* an account before a verify-email request for that account has succeeded.
C11_VerifiedBeforeLogin ==
    authorized.user # NoUser =>
        /\ authorized.user.email = authorized.email
        /\ authorized.user.password # NoPassword
        /\ compare(authorized.password, authorized.user.password)
        /\ authorized.user.emailVerified # Null
        /\ \E v \in verifications : v.user = authorized.user.id

\* C11: a login succeeded
C11_Witness == authorized.user # NoUser

\* C12: a verify-email request that carries a token whose
\* verificationTokenExpiry lies in the past is answered as an invalid link in
\* the step that looks the token up, and the User table stays as it is.
C12_ExpiredTokenRejected ==
    [][\A s \in AuthSlots : \A u \in users :
          ( /\ authReq[s] # authReq'[s]
            /\ authReq'[s].route = "verify-email"
            /\ authReq'[s].token # NoToken
            /\ u.verificationToken = authReq'[s].token
            /\ u.verificationTokenExpiry < clock )
          => /\ authReq'[s].answer = InvalidLink
             /\ users' = users]_vars

\* C13: the answer of resend-verification to a well-formed email is the answer
\* it gives when no account has that email, whether or not an account exists
\* and whether or not it is verified.
C13_SameAnswerForAnyEmail ==
    \A s \in AuthSlots :
        ( /\ authReq[s].pc = "done"
          /\ authReq[s].route = "resend-verification"
          /\ authReq[s].email \in Emails )
        => authReq[s].answer = NoAccountAnswer

\* C19: at most one User row exists per email address, and a signup for an
\* email whose account is verified is answered 400 and creates no row.
C19_OneUserPerEmail ==
    /\ [](\A u1 \in users : \A u2 \in users : u1.email = u2.email => u1.id = u2.id)
    /\ [][\A s \in AuthSlots :
            ( /\ authReq[s].pc \in {"idle", "done"}
              /\ authReq'[s] # authReq[s]
              /\ authReq'[s].route = "signup"
              /\ authCount' = authCount + 1
              /\ getUser(authReq'[s].email) # {}
              /\ \A u \in getUser(authReq'[s].email) : u.emailVerified # Null )
            => /\ authReq'[s].answer = AccountExists
               /\ users' = users]_vars

\* the tokens of the verify-email requests that succeeded
UsedTokens == { v.token : v \in verifications }

-----------------------------------------------------------------------------
(* Uploaded files: POST /api/files/upload and GET /api/cron/cleanup-files *)

\* an environment variable that is not set
Unset == ""

\* FILE_RETENTION_DAYS || "7"
defaultRetentionDays == "7"

\* Number.parseInt(text, 10) of the decimal numbers used here
parseInt(text) == CASE text = "1" -> 1 [] text = "7" -> 7

\* the largest accepted file: 100 * 1024 * 1024 bytes
maxFileSize == 104857600

allowedFileTypes == {"image/jpeg", "image/png", "application/pdf"}

\* process.env: CRON_SECRET and FILE_RETENTION_DAYS (unset, or a number of days)
Envs == [CRON_SECRET : {Unset, "s3cret"}, FILE_RETENTION_DAYS : {Unset, "1"}]

\* Number.parseInt(process.env.FILE_RETENTION_DAYS || "7", 10)
retentionDays ==
    parseInt(IF env.FILE_RETENTION_DAYS = Unset THEN defaultRetentionDays
             ELSE env.FILE_RETENTION_DAYS)

\* the Authorization header of a request
NoHeader == [scheme |-> "", credentials |-> ""]

Bearer(secret) == [scheme |-> "Bearer", credentials |-> secret]

Headers == {NoHeader, Bearer("s3cret"), Bearer("guess"), Bearer(Unset),
            [scheme |-> "Basic", credentials |-> "s3cret"]}

\* faulty variant: any bearer token is accepted
CronAuthorized_AnyBearer(authHeader) == authHeader.scheme = "Bearer"

\* authHeader === `Bearer ${cronSecret}`
CronAuthorized(authHeader) == authHeader = Bearer(env.CRON_SECRET)

\* faulty variant: the files already marked as deleted are selected
getExpiredFiles_Deleted ==
    { f \in uploadedFiles : f.autoDeleteAt <= fileClock /\ f.deletedAt # Null }

\* the files past their auto-delete date that are not marked as deleted
getExpiredFiles ==
    { f \in uploadedFiles : f.autoDeleteAt <= fileClock /\ f.deletedAt = Null }

IdleCron ==
    [pc |-> "idle", authHeader |-> NoHeader, expiredFiles |-> {}, deleted |-> 0,
     failed |-> 0, status |-> 0]

CronAnswer(authHeader, status, deleted, failed) ==
    [pc |-> "done", authHeader |-> authHeader, expiredFiles |-> {}, deleted |-> deleted,
     failed |-> failed, status |-> status]

\* GET /api/cron/cleanup-files: the secret check and the select of the expired
\* files; dbOk: the select succeeds
CronStart(authHeader, dbOk) ==
    /\ cronReq.pc \in {"idle", "done"}
    /\ IF env.CRON_SECRET = Unset
       THEN cronReq' = CronAnswer(authHeader, 500, 0, 0)
       ELSE IF ~CronAuthorized(authHeader)
       THEN cronReq' = CronAnswer(authHeader, 401, 0, 0)
       ELSE IF ~dbOk
       THEN cronReq' = CronAnswer(authHeader, 500, 0, 0)
       ELSE IF getExpiredFiles = {}
       THEN cronReq' = CronAnswer(authHeader, 200, 0, 0)
       ELSE cronReq' = [IdleCron EXCEPT !.pc = "deleting", !.authHeader = authHeader,
                                         !.expiredFiles = getExpiredFiles]
    /\ UNCHANGED <<uploadedFiles, cloudinary, fileClock, uploadReq, env>>
    /\ UNCHANGED <<retryVars, detectVars, usageVars, authVars>>

\* db.update(uploadedFiles).set({ deletedAt: new Date() }).where(eq(uploadedFiles.id, fileId))
markFileAsDeleted(fileId) ==
    { IF f.id = fileId THEN [f EXCEPT !.deletedAt = fileClock] ELSE f : f \in uploadedFiles }

\* one round of the loop over the expired files: "ok", or deleteFromCloudinary
\* throws ("cloudinary"), or markFileAsDeleted throws ("database")
CronDeleteFile(file, outcome) ==
    /\ cronReq.pc = "deleting"
    /\ file \in cronReq.expiredFiles
    /\ cloudinary' = IF outcome = "cloudinary" THEN cloudinary
                     ELSE cloudinary \ {file.cloudinaryPublicId}
    /\ uploadedFiles' = IF outcome = "ok" THEN markFileAsDeleted(file.id) ELSE uploadedFiles
    /\ cronReq' = [cronReq EXCEPT
                      !.expiredFiles = @ \ {file},
                      !.deleted = IF outcome = "ok" THEN @ + 1 ELSE @,
                      !.failed = IF outcome = "ok" THEN @ ELSE @ + 1]
    /\ UNCHANGED <<fileClock, uploadReq, env>>
    /\ UNCHANGED <<retryVars, detectVars, usageVars, authVars>>

\* the loop is over, the results are returned
CronFinish ==
    /\ cronReq.pc = "deleting"
    /\ cronReq.expiredFiles = {}
    /\ cronReq' = CronAnswer(cronReq.authHeader, 200, cronReq.deleted, cronReq.failed)
    /\ UNCHANGED <<uploadedFiles, cloudinary, fileClock, uploadReq, env>>
    /\ UNCHANGED <<retryVars, detectVars, usageVars, authVars>>

\* the sessions of an upload request
Sessions == {"none", "u1"}

NoFile == [blob |-> FALSE, type |-> "", size |-> 0]

\* a "file" field that is text, not a Blob
TextField == [blob |-> FALSE, type |-> "text", size |-> 0]

\* files of the largest accepted size, of the accepted types and of another,
\* and a file one byte larger
Blobs ==
    [blob : {TRUE}, type : allowedFileTypes \cup {"image/gif"}, size : {maxFileSize}]
    \cup {[blob |-> TRUE, type |-> "application/pdf", size |-> maxFileSize + 1]}

FileFields == {NoFile, TextField} \cup Blobs

ChatIds == {"", "chat-1"}

\* the body of an upload request: none, one that formData() cannot read, or
\* form data with its "file" and "chatId" fields
NullBody == [kind |-> "null", file |-> NoFile, chatId |-> ""]

MalformedBody == [kind |-> "malformed", file |-> NoFile, chatId |-> ""]

Bodies == {NullBody, MalformedBody} \cup [kind : {"form"}, file : FileFields, chatId : ChatIds]

\* faulty variant: the size is not looked at
FileSchema_AnySize(file) == file.blob /\ file.type \in allowedFileTypes

\* FileSchema.safeParse({ file }).success
FileSchema(file) ==
    /\ file.blob
    /\ file.size <= maxFileSize
    /\ file.type \in allowedFileTypes

IdleUpload ==
    [pc |-> "idle", n |-> 0, session |-> "none", body |-> NullBody, publicId |-> 0,
     fileId |-> 0, status |-> 0]

\* the status of a request that is answered before anything is uploaded, 0
\* for one that goes on
UploadCheckStatus(session, body) ==
    IF session = "none" THEN 401
    ELSE IF body.kind = "null" THEN 400
    ELSE IF body.kind = "malformed" THEN 500
    ELSE IF body.file = NoFile THEN 400
    ELSE IF body.chatId = "" THEN 400
    ELSE IF ~FileSchema(body.file) THEN 400
    ELSE 0

\* POST /api/files/upload: the session, the form data and the validation
UploadCheck(session, body) ==
    /\ uploadReq.pc \in {"idle", "done"}
    /\ uploadReq.n < MaxUploads
    /\ LET status == UploadCheckStatus(session, body) IN
       uploadReq' = [pc |-> IF status = 0 THEN "uploading" ELSE "done",
                     n |-> uploadReq.n + 1, session |-> session, body |-> body,
                     publicId |-> 0, fileId |-> 0, status |-> status]
    /\ UNCHANGED <<uploadedFiles, cloudinary, fileClock, cronReq, env>>
    /\ UNCHANGED <<retryVars, detectVars, usageVars, authVars>>

\* POST /api/files/upload: the upload stream to Cloudinary ends with a result or an error
UploadToCloudinary(ok) ==
    /\ uploadReq.pc = "uploading"
    /\ IF ok
       THEN /\ cloudinary' = cloudinary \cup {uploadReq.n}
            /\ uploadReq' = [uploadReq EXCEPT !.pc = "inserting", !.publicId = uploadReq.n]
       ELSE /\ cloudinary' = cloudinary
            /\ uploadReq' = [uploadReq EXCEPT !.pc = "done", !.status = 500]
    /\ UNCHANGED <<uploadedFiles, fileClock, cronReq, env>>
    /\ UNCHANGED <<retryVars, detectVars, usageVars, authVars>>

\* the row of an uploaded file, with the defaults of the schema
NewFile(id, publicId, fileType, fileSize) ==
    [id |-> id, cloudinaryPublicId |-> publicId, fileType |-> fileType,
     fileSize |-> fileSize, createdAt |-> fileClock,
     autoDeleteAt |-> fileClock + retentionDays, deletedAt |-> Null]

\* POST /api/files/upload: the insert of the UploadedFiles row
UploadInsert(ok) ==
    /\ uploadReq.pc = "inserting"
    /\ IF ok
       THEN LET id == Cardinality(uploadedFiles) + 1 IN
            /\ uploadedFiles' = uploadedFiles \cup
                   { NewFile(id, uploadReq.publicId, uploadReq.body.file.type,
                             uploadReq.body.file.size) }
            /\ uploadReq' = [uploadReq EXCEPT !.pc = "done", !.fileId = id, !.status = 200]
       ELSE /\ uploadedFiles' = uploadedFiles
            /\ uploadReq' = [uploadReq EXCEPT !.pc = "done", !.status = 500]
    /\ UNCHANGED <<cloudinary, fileClock, cronReq, env>>
    /\ UNCHANGED <<retryVars, detectVars, usageVars, authVars>>

\* days pass
DaysPass ==
    /\ fileClock + DayStep <= MaxFileDay
    /\ fileClock' = fileClock + DayStep
    /\ UNCHANGED <<uploadedFiles, cloudinary, cronReq, uploadReq, env>>
    /\ UNCHANGED <<retryVars, detectVars, usageVars, authVars>>

FilesStart(e) ==
    /\ uploadedFiles = {}
    /\ cloudinary = {}
    /\ fileClock = 0
    /\ cronReq = IdleCron
    /\ uploadReq = IdleUpload
    /\ env = e

DefaultEnv == [CRON_SECRET |-> "s3cret", FILE_RETENTION_DAYS |-> Unset]

InitFiles == \E e \in Envs : FilesStart(e)

\* the cron job is run with the configured secret and the select succeeds
CronRuns == CronStart(Bearer(env.CRON_SECRET), TRUE)

\* the rows the UploadedFiles table can hold
FileIds == 1..MaxUploads

\* the cron job deletes the file and marks it as deleted
CronDeletes(fileId) ==
    \E file \in cronReq.expiredFiles : file.id = fileId /\ CronDeleteFile(file, "ok")

NextFiles ==
    \/ \E authHeader \in Headers, dbOk \in BOOLEAN : CronStart(authHeader, dbOk)
    \/ \E file \in cronReq.expiredFiles, outcome \in {"ok", "cloudinary", "database"} :
           CronDeleteFile(file, outcome)
    \/ CronFinish
    \/ \E session \in Sessions, body \in Bodies : UploadCheck(session, body)
    \/ \E ok \in BOOLEAN : UploadToCloudinary(ok)
    \/ \E ok \in BOOLEAN : UploadInsert(ok)
    \/ DaysPass

\* the bodies that pass the checks of the upload route
AcceptedBodies == { body \in Bodies : UploadCheckStatus("u1", body) = 0 }

\* uploads that are accepted, cleanup runs and the days
NextCleanup ==
    \/ \E authHeader \in {Bearer("s3cret"), Bearer("guess")}, dbOk \in BOOLEAN :
           CronStart(authHeader, dbOk)
    \/ \E file \in cronReq.expiredFiles, outcome \in {"ok", "cloudinary", "database"} :
           CronDeleteFile(file, outcome)
    \/ CronFinish
    \/ \E body \in AcceptedBodies : UploadCheck("u1", body)
    \/ \E ok \in BOOLEAN : UploadToCloudinary(ok)
    \/ \E ok \in BOOLEAN : UploadInsert(ok)
    \/ DaysPass

\* the cleanup keeps being run with the secret, its loop goes on, and deleting
\* and marking a file succeeds in the end
FairFiles ==
    /\ WF_vars(CronRuns)
    /\ WF_vars(\E file \in cronReq.expiredFiles, outcome \in {"ok", "cloudinary", "database"} :
                   CronDeleteFile(file, outcome))
    /\ WF_vars(CronFinish)
    /\ \A fileId \in FileIds : SF_vars(CronDeletes(fileId))

\* C14: a cleanup request whose Authorization header is not 'Bearer <CRON_SECRET>'
\* is answered 500 when CRON_SECRET is not configured and 401 otherwise, and
\* leaves Cloudinary and the UploadedFiles table as they are; a file leaves
\* Cloudinary or is marked as deleted only in a request with that header.
C14_CronNeedsSecret ==
    [][/\ ( /\ cronReq.pc \in {"idle", "done"}
            /\ cronReq' # cronReq
            /\ ~(env.CRON_SECRET # Unset /\ cronReq'.authHeader = Bearer(env.CRON_SECRET)) )
          => /\ cronReq'.status = IF env.CRON_SECRET = Unset THEN 500 ELSE 401
             /\ cronReq'.pc = "done"
             /\ UNCHANGED <<uploadedFiles, cloudinary>>
       /\ ( \/ ~(cloudinary \subseteq cloudinary')
            \/ \E f \in uploadedFiles' : f.deletedAt # Null /\ f \notin uploadedFiles )
          => /\ env.CRON_SECRET # Unset
             /\ cronReq.authHeader = Bearer(env.CRON_SECRET)]_vars

\* C14: a request with a wrong secret was refused while a file was due
C14_Witness ==
    /\ cronReq.pc = "done"
    /\ cronReq.status = 401
    /\ cronReq.authHeader = Bearer("guess")
    /\ getExpiredFiles # {}

\* the request is authenticated and carries a file and a chatId, the file is
\* a JPEG, PNG or PDF of at most 100 MB
UploadAllowed(req) ==
    /\ req.session # "none"
    /\ req.body.kind = "form"
    /\ req.body.file.blob
    /\ req.body.chatId # ""
    /\ req.body.file.type \in {"image/jpeg", "image/png", "application/pdf"}
    /\ req.body.file.size <= 100 * 1024 * 1024

\* the request has uploaded or inserted something, or is about to
UploadGoesOn(req) ==
    \/ req.pc \in {"uploading", "inserting"}
    \/ req.publicId # 0
    \/ req.fileId # 0

\* C15 as stated: an upload request stores a file only if it is authenticated,
\* carries a file and a chatId and the file is a JPEG, PNG or PDF of at most
\* 100 MB; any other request is answered 401 or 400 and stores nothing.
C15_UploadOnlyValid ==
    /\ UploadGoesOn(uploadReq) => UploadAllowed(uploadReq)
    /\ (uploadReq.pc = "done" /\ ~UploadAllowed(uploadReq))
       => /\ uploadReq.status \in {401, 400}
          /\ ~UploadGoesOn(uploadReq)

\* C15 amended: as stated, except that an authenticated request whose body
\* cannot be read as form data is answered 500; it stores nothing either.
C15_UploadOnlyValidOr500 ==
    /\ UploadGoesOn(uploadReq) => UploadAllowed(uploadReq)
    /\ (uploadReq.pc = "done" /\ ~UploadAllowed(uploadReq))
       => /\ uploadReq.status =
                 IF uploadReq.session = "none" THEN 401
                 ELSE IF uploadReq.body.kind = "malformed" THEN 500
                 ELSE 400
          /\ ~UploadGoesOn(uploadReq)
    /\ \A f \in uploadedFiles :
           /\ f.fileType \in {"image/jpeg", "image/png", "application/pdf"}
           /\ f.fileSize <= 100 * 1024 * 1024
           /\ f.cloudinaryPublicId # 0

\* C15: an unreadable body was answered 500 after a file had been stored
C15_Witness ==
    /\ uploadReq.pc = "done"
    /\ uploadReq.body.kind = "malformed"
    /\ uploadReq.status = 500
    /\ uploadedFiles # {}

\* the file with this id is past its auto-delete date, the cron secret is configured
Due(fileId) ==
    /\ env.CRON_SECRET # Unset
    /\ \E f \in uploadedFiles : f.id = fileId /\ f.autoDeleteAt <= fileClock

MarkedDeleted(fileId) == \E f \in uploadedFiles : f.id = fileId /\ f.deletedAt # Null

\* C16: every UploadedFiles row has autoDeleteAt = createdAt + FILE_RETENTION_DAYS
\* (7 when unset), and when the cleanup keeps being run with the secret and
\* deleting and marking a file succeeds in the end, every file past its
\* autoDeleteAt is marked as deleted in the end.
C16_ExpiredFilesDeleted ==
    /\ [](\A f \in uploadedFiles :
             f.autoDeleteAt = f.createdAt +
                 (IF env.FILE_RETENTION_DAYS = Unset THEN 7
                  ELSE parseInt(env.FILE_RETENTION_DAYS)))
    /\ \A fileId \in FileIds : Due(fileId) ~> MarkedDeleted(fileId)

\* C16: a file was marked as deleted after the default retention of 7 days
C16_Witness ==
    \E f \in uploadedFiles :
        /\ f.deletedAt # Null
        /\ f.autoDeleteAt = f.createdAt + 7
        /\ f.deletedAt >= f.autoDeleteAt

\* C21: every file in Cloudinary has an UploadedFiles row, or is the file of
\* the upload request whose insert is still to come: a failed insert leaves
\* no file in Cloudinary without a row.
C21_NoFileWithoutRow ==
    \A publicId \in cloudinary :
        \/ \E f \in uploadedFiles : f.cloudinaryPublicId = publicId
        \/ uploadReq.pc = "inserting" /\ uploadReq.publicId = publicId

-----------------------------------------------------------------------------
(* Specifications *)

Init ==
    /\ InitRetry
    /\ InitDetect
    /\ InitUsage
    /\ InitAuth
    /\ FilesStart(DefaultEnv)

Next ==
    \/ NextRetry
    \/ NextDetect
    \/ NextUsage
    \/ NextAuth
    \/ NextFiles

Spec == Init /\ [][Next]_vars

\* the initial state with an empty usage history
InitNewUser ==
    /\ InitRetry
    /\ InitDetect
    /\ UsageStart(0)
    /\ InitAuth
    /\ FilesStart(DefaultEnv)

\* one invocation of analyzeWithRetry
SpecRetry == InitNewUser /\ [][NextRetry]_vars

\* one invocation of detectCategory
SpecRetryFair == InitNewUser /\ [][NextRetry]_vars /\ FairRetry

SpecDetect == InitNewUser /\ [][NextDetect]_vars

\* analysis requests and usage requests over the days
SpecUsage == Init /\ [][NextUsage]_vars

\* signup, verification and login requests
SpecAuth == InitNewUser /\ [][NextAuth]_vars

\* the initial state with any environment
InitEnv ==
    /\ InitRetry
    /\ InitDetect
    /\ UsageStart(0)
    /\ InitAuth
    /\ InitFiles

\* upload requests and cleanup runs over the days
SpecFiles == InitEnv /\ [][NextFiles]_vars

\* accepted uploads and a cleanup that keeps running and succeeds in the end
SpecFilesFair == InitEnv /\ [][NextCleanup]_vars /\ FairFiles

====
